---- MODULE Spec2Model ----
(***************************************************************************)
(* Bank-Agent: a bank assistant built from named agents, two guardrails    *)
(* and a context-gated tool, driven by main() through Runner.run.          *)
(*                                                                         *)
(* The declarations (agents, guardrail functions, is_authenticated,        *)
(* check_balance, main) are modelled from "Assignment 5/main.py".  The     *)
(* orchestration of one Runner.run call (guardrail sequencing, inference,  *)
(* handoff, result or tripwire) is imported by main.py and is modelled     *)
(* from the design document, sections 4.1 to 4.4.                          *)
(***************************************************************************)
EXTENDS Integers, Sequences, FiniteSets, TLC

VARIABLES
    mainpc,     \* position of main(): call1, await1, call2, await2, done, crashed
    stack,      \* the Runner.run frames in progress, innermost last
    returned,   \* the RunResult handed to main by the current run, or NoneValue
    raised,     \* the exception that reached main from the current run, or NoneValue
    invoked,    \* guardrail functions entered in the current run, in order
    guardLog,   \* guardrail evaluations completed in the current run, in order
    inferLog,   \* model inference calls made in the current run, in order
    printed,    \* the lines main() has printed, each the tuple of its print arguments
    agents,     \* the agent declarations in force
    context     \* the Account object main() passes as context

vars == <<mainpc, stack, returned, raised, invoked, guardLog, inferLog, printed,
          agents, context>>

----------------------------------------------------------------------------
(* Bounds of the model *)

\* delegation hops one run may take (the program itself sets no limit)
MaxHops == 3
\* Runner.run frames nested at one time
MaxDepth == 4
\* guardrails of one kind on the entry agent in the ordering specification
MaxGuardrails == 2

----------------------------------------------------------------------------
(* Values *)

NoneValue == [type |-> "None"]

NoReasoning == "<None>"

Reasonings == {NoReasoning, "explained"}

Responses == {"The balance for account 1 is $100,000", "Here is how to solve 6x + 9 = 22"}

BalanceInput == "I want to check my balance."

MathInput == "Help me solve my math homework: 6x + 9 = 22"

RephrasedInput == "rephrased request"

user_context == [type |-> "Account", name |-> "Tooba", pin |-> 678]

----------------------------------------------------------------------------
(* Declarations of main.py *)

\* faulty variant: an output guardrail on an agent whose output is plain text
loan_agent_guarded ==
    [name |-> "Loan Agent", tools |-> {}, handoffs |-> <<>>,
     input_guardrails |-> <<>>, output_guardrails |-> <<"control_response">>,
     output_type |-> "str"]

loan_agent ==
    [name |-> "Loan Agent", tools |-> {}, handoffs |-> <<>>,
     input_guardrails |-> <<>>, output_guardrails |-> <<>>, output_type |-> "str"]

\* faulty variant: the same on customer_agent
customer_agent_guarded ==
    [name |-> "Customer Agent", tools |-> {}, handoffs |-> <<>>,
     input_guardrails |-> <<>>, output_guardrails |-> <<"control_response">>,
     output_type |-> "str"]

\* faulty variant: customer_agent hands back to bank_agent
customer_agent_cyclic ==
    [name |-> "Customer Agent", tools |-> {}, handoffs |-> <<"Bank Agent">>,
     input_guardrails |-> <<>>, output_guardrails |-> <<>>, output_type |-> "str"]

customer_agent ==
    [name |-> "Customer Agent", tools |-> {}, handoffs |-> <<>>,
     input_guardrails |-> <<>>, output_guardrails |-> <<>>, output_type |-> "str"]

guardrail_agent ==
    [name |-> "Input Guardrail: Banking Relevance Check", tools |-> {},
     handoffs |-> <<>>, input_guardrails |-> <<>>, output_guardrails |-> <<>>,
     output_type |-> "GuardrailAgentOutput"]

control_guardrail_agent ==
    [name |-> "Output Guardrail: Banking Safety Filter", tools |-> {},
     handoffs |-> <<>>, input_guardrails |-> <<>>, output_guardrails |-> <<>>,
     output_type |-> "OutputCheck"]

bank_agent ==
    [name |-> "Bank Agent", tools |-> {},
     handoffs |-> <<"Customer Agent", "Loan Agent">>,
     input_guardrails |-> <<"check_bank_related">>,
     output_guardrails |-> <<"control_response">>,
     output_type |-> "MessageOutput"]

AgentNames ==
    {loan_agent.name, customer_agent.name, guardrail_agent.name,
     control_guardrail_agent.name, bank_agent.name}

Agents ==
    [n \in AgentNames |->
        CHOOSE a \in {loan_agent, customer_agent, guardrail_agent,
                      control_guardrail_agent, bank_agent} : a.name = n]

\* is_authenticated: a failed attribute read is caught and answered False
is_authenticated(ctx) ==
    IF "name" \notin DOMAIN ctx THEN FALSE
    ELSE IF ctx.name # "Tooba" THEN FALSE
    ELSE IF "pin" \notin DOMAIN ctx THEN FALSE
    ELSE ctx.pin = 678

\* check_balance: the tool and the predicate that gates it
check_balance == [name |-> "check_balance", is_enabled |-> "is_authenticated"]

\* check_bank_related, line 77: the nested Runner.run it makes (faulty variant: drops the context)
check_bank_related_run_nocontext(ctx, input) ==
    [ok |-> TRUE, agent |-> guardrail_agent.name, input |-> input, context |-> NoneValue]

check_bank_related_run(ctx, input) ==
    [ok |-> TRUE, agent |-> guardrail_agent.name, input |-> input, context |-> ctx]

\* check_bank_related, lines 78-81: the verdict (faulty variant: never trips)
check_bank_related_never(final_output) ==
    [output_info |-> final_output, tripwire_triggered |-> FALSE]

check_bank_related(final_output) ==
    [output_info |-> final_output,
     tripwire_triggered |-> ~final_output.is_bank_related]

\* control_response, line 102: reads output.response and makes the nested Runner.run
control_response_run(ctx, output) ==
    IF "response" \in DOMAIN output
    THEN [ok |-> TRUE, agent |-> control_guardrail_agent.name,
          input |-> output.response, context |-> ctx]
    ELSE [ok |-> FALSE, agent |-> control_guardrail_agent.name,
          input |-> "AttributeError", context |-> ctx]

\* control_response, lines 103-106: the verdict (faulty variants: never trips; trips on reasoning)
control_response_never(final_output) ==
    [output_info |-> final_output, tripwire_triggered |-> FALSE]

control_response_by_reasoning(final_output) ==
    [output_info |-> final_output,
     tripwire_triggered |-> (~final_output.is_bank_queries
                             \/ final_output.reasoning = NoReasoning)]

control_response(final_output) ==
    [output_info |-> final_output,
     tripwire_triggered |-> ~final_output.is_bank_queries]

----------------------------------------------------------------------------
(* Runner.run: one call, as a stack of frames *)

\* the decorated guardrail functions, by name
GuardrailRun(g, ctx, payload) ==
    IF g = "check_bank_related"
    THEN check_bank_related_run(ctx, payload)
    ELSE control_response_run(ctx, payload)

GuardrailVerdict(g, final_output) ==
    IF g = "check_bank_related"
    THEN check_bank_related(final_output)
    ELSE control_response(final_output)

\* what an agent's model call can answer, by the agent's output_type
Outputs(output_type) ==
    IF output_type = "MessageOutput"
    THEN {[type |-> "MessageOutput", response |-> r] : r \in Responses}
    ELSE IF output_type = "GuardrailAgentOutput"
    THEN {[type |-> "GuardrailAgentOutput", is_bank_related |-> b, reasoning |-> r] :
            b \in BOOLEAN, r \in Reasonings}
    ELSE IF output_type = "OutputCheck"
    THEN {[type |-> "OutputCheck", is_bank_queries |-> b, reasoning |-> r] :
            b \in BOOLEAN, r \in Reasonings}
    ELSE {[type |-> "str", text |-> r] : r \in Responses}

\* section 4.1: the tools of the agent whose predicate holds on the context
EnabledTools(agent, ctx) ==
    {t \in agent.tools : t = check_balance.name /\ is_authenticated(ctx)}

\* section 4.2: a verdict aborts the turn when its tripwire is set (faulty variant: never)
GuardrailTrips_ignored(verdict) == FALSE

GuardrailTrips(verdict) == verdict.tripwire_triggered

\* section 4.2: the signal a tripped guardrail raises, by the list it stands in
TripwireFor(kind, verdict) ==
    [type |-> IF kind = "input_guardrails"
              THEN "InputGuardrailTripwireTriggered"
              ELSE "OutputGuardrailTripwireTriggered",
     guardrail_result |-> verdict]

\* section 4.4: a call starts at step 1 with nothing produced yet
NewFrame(entry, agent, input, ctx, hops) ==
    [entry |-> entry, agent |-> agent, pc |-> "input_guardrails", gi |-> 1,
     input |-> input, context |-> ctx, hops |-> hops, candidate |-> NoneValue,
     waiting |-> FALSE, result |-> NoneValue]

Top == stack[Len(stack)]

SetTop(f) == [stack EXCEPT ![Len(stack)] = f]

Guardrails(f) ==
    IF f.pc = "input_guardrails"
    THEN agents[f.agent].input_guardrails
    ELSE agents[f.agent].output_guardrails

Payload(f) == IF f.pc = "input_guardrails" THEN f.input ELSE f.candidate

\* steps 1 and 6: enter the next guardrail function, which runs its checking agent
GuardrailCall ==
    /\ stack # <<>>
    /\ Len(stack) < MaxDepth
    /\ Top.pc \in {"input_guardrails", "output_guardrails"}
    /\ ~Top.waiting
    /\ Top.gi <= Len(Guardrails(Top))
    /\ LET f == Top
           g == Guardrails(f)[f.gi]
           call == GuardrailRun(g, f.context, Payload(f))
       IN  /\ invoked' = Append(invoked,
                [kind |-> f.pc, idx |-> f.gi, guardrail |-> g, owner |-> f.agent,
                 depth |-> Len(stack), context |-> call.context,
                 completed |-> Len(guardLog), inferred |-> Len(inferLog)])
           /\ IF call.ok
              THEN /\ stack' = Append(SetTop([f EXCEPT !.waiting = TRUE]),
                                      NewFrame(call.agent, call.agent, call.input,
                                               call.context, 0))
                   /\ raised' = raised
              ELSE /\ stack' = <<>>
                   /\ raised' = [type |-> "AttributeError"]
    /\ UNCHANGED <<mainpc, returned, guardLog, inferLog, printed, agents, context>>

\* steps 1 and 6: the guardrail function answers; a tripped verdict aborts the run
GuardrailDone ==
    /\ stack # <<>>
    /\ Top.waiting
    /\ Top.result # NoneValue
    /\ LET f == Top
           g == Guardrails(f)[f.gi]
           verdict == GuardrailVerdict(g, f.result)
       IN  /\ guardLog' = Append(guardLog,
                [kind |-> f.pc, idx |-> f.gi, guardrail |-> g, owner |-> f.agent,
                 checked |-> f.result, verdict |-> verdict])
           /\ IF GuardrailTrips(verdict)
              THEN /\ stack' = <<>>
                   /\ raised' = TripwireFor(f.pc, verdict)
              ELSE /\ stack' = SetTop([f EXCEPT !.waiting = FALSE,
                                                !.result = NoneValue,
                                                !.gi = f.gi + 1])
                   /\ raised' = raised
    /\ UNCHANGED <<mainpc, returned, invoked, inferLog, printed, agents, context>>

\* step 1 is over: every input guardrail passed
InputGuardrailsPassed ==
    /\ stack # <<>>
    /\ Top.pc = "input_guardrails"
    /\ ~Top.waiting
    /\ Top.gi > Len(Guardrails(Top))
    /\ stack' = SetTop([Top EXCEPT !.pc = "infer"])
    /\ UNCHANGED <<mainpc, returned, raised, invoked, guardLog, inferLog, printed,
                   agents, context>>

InferRecord(f, out) ==
    [agent |-> f.agent, entry |-> f.entry, depth |-> Len(stack), hops |-> f.hops,
     tools |-> EnabledTools(agents[f.agent], f.context), context |-> f.context,
     output |-> out]

\* steps 2, 3 and 5: the model call answers with a final output of the agent's shape
InferFinal ==
    /\ stack # <<>>
    /\ Top.pc = "infer"
    /\ \E out \in Outputs(agents[Top.agent].output_type) :
          /\ stack' = SetTop([Top EXCEPT !.candidate = out,
                                         !.pc = "output_guardrails", !.gi = 1])
          /\ inferLog' = Append(inferLog, InferRecord(Top, out))
    /\ UNCHANGED <<mainpc, returned, raised, invoked, guardLog, printed, agents,
                   context>>

\* steps 2, 3 and 4: the model call answers with a delegation to a handoff target
InferDelegate ==
    /\ stack # <<>>
    /\ Top.pc = "infer"
    /\ Top.hops < MaxHops
    /\ \E i \in 1..Len(agents[Top.agent].handoffs), inp \in {Top.input, RephrasedInput} :
          /\ stack' = SetTop(NewFrame(Top.entry, agents[Top.agent].handoffs[i], inp,
                                      Top.context, Top.hops + 1))
          /\ inferLog' = Append(inferLog,
                InferRecord(Top, [type |-> "Handoff",
                                  to |-> agents[Top.agent].handoffs[i], input |-> inp]))
    /\ UNCHANGED <<mainpc, returned, raised, invoked, guardLog, printed, agents,
                   context>>

\* step 6 is over: the candidate is the result of this call
Return ==
    /\ stack # <<>>
    /\ Top.pc = "output_guardrails"
    /\ ~Top.waiting
    /\ Top.gi > Len(Guardrails(Top))
    /\ IF Len(stack) = 1
       THEN /\ stack' = <<>>
            /\ returned' = [type |-> "RunResult", final_output |-> Top.candidate,
                            last_agent |-> Top.agent, hops |-> Top.hops]
       ELSE /\ stack' = [SubSeq(stack, 1, Len(stack) - 1) EXCEPT
                            ![Len(stack) - 1].result = Top.candidate]
            /\ returned' = returned
    /\ UNCHANGED <<mainpc, raised, invoked, guardLog, inferLog, printed, agents,
                   context>>

----------------------------------------------------------------------------
(* main() *)

RunOver == stack = <<>> /\ (returned # NoneValue \/ raised # NoneValue)

StartRun(input) ==
    /\ stack' = <<NewFrame(bank_agent.name, bank_agent.name, input, context, 0)>>
    /\ returned' = NoneValue
    /\ raised' = NoneValue
    /\ invoked' = <<>>
    /\ guardLog' = <<>>
    /\ inferLog' = <<>>

\* line 122
main_run1 ==
    /\ mainpc = "call1"
    /\ StartRun(BalanceInput)
    /\ mainpc' = "await1"
    /\ UNCHANGED <<printed, agents, context>>

\* lines 123-127: the print reads result.final_output.response
main_after1 ==
    /\ mainpc = "await1"
    /\ RunOver
    /\ IF returned # NoneValue
       THEN IF "response" \in DOMAIN returned.final_output
            THEN /\ printed' = Append(printed,
                        <<"Agent result:", returned.final_output.response>>)
                 /\ mainpc' = "call2"
            ELSE /\ printed' = printed
                 /\ mainpc' = "crashed"
       ELSE IF raised.type = "InputGuardrailTripwireTriggered"
            THEN /\ printed' = Append(printed,
                        <<"Input guardrail tripped: user input deemed not bank-related.">>)
                 /\ mainpc' = "call2"
            ELSE IF raised.type = "OutputGuardrailTripwireTriggered"
            THEN /\ printed' = Append(printed,
                        <<"Output guardrail tripped: agent produced non-bank or unsafe output.">>)
                 /\ mainpc' = "call2"
            ELSE /\ printed' = printed
                 /\ mainpc' = "crashed"
    /\ UNCHANGED <<stack, returned, raised, invoked, guardLog, inferLog, agents,
                   context>>

\* line 130
main_run2 ==
    /\ mainpc = "call2"
    /\ StartRun(MathInput)
    /\ mainpc' = "await2"
    /\ UNCHANGED <<printed, agents, context>>

\* lines 131-135
main_after2 ==
    /\ mainpc = "await2"
    /\ RunOver
    /\ IF returned # NoneValue
       THEN /\ printed' = Append(printed,
                   <<"Unexpected: guardrail didn't trip for non-bank input.">>)
            /\ mainpc' = "done"
       ELSE IF raised.type = "InputGuardrailTripwireTriggered"
            THEN /\ printed' = Append(printed,
                        <<"Correctly trapped: non-bank input detected by input guardrail.">>)
                 /\ mainpc' = "done"
            ELSE IF raised.type = "OutputGuardrailTripwireTriggered"
            THEN /\ printed' = Append(printed,
                        <<"Output guardrail tripped (unexpected for this test).">>)
                 /\ mainpc' = "done"
            ELSE /\ printed' = printed
                 /\ mainpc' = "crashed"
    /\ UNCHANGED <<stack, returned, raised, invoked, guardLog, inferLog, agents,
                   context>>

----------------------------------------------------------------------------
(* Specifications *)

InitRun ==
    /\ mainpc = "call1"
    /\ stack = <<>>
    /\ returned = NoneValue
    /\ raised = NoneValue
    /\ invoked = <<>>
    /\ guardLog = <<>>
    /\ inferLog = <<>>
    /\ printed = <<>>
    /\ context = user_context

Init ==
    /\ InitRun
    /\ agents = Agents

Next ==
    \/ main_run1
    \/ GuardrailCall
    \/ GuardrailDone
    \/ InputGuardrailsPassed
    \/ InferFinal
    \/ InferDelegate
    \/ Return
    \/ main_after1
    \/ main_run2
    \/ main_after2

Spec == Init /\ [][Next]_vars

\* every model call returns: a step that can be taken is taken
SpecLive == Init /\ [][Next]_vars /\ WF_vars(Next)

\* the same program with one to MaxGuardrails guardrails of each kind on the entry agent
GuardSeqs(g) == {[i \in 1..n |-> g] : n \in 1..MaxGuardrails}

InitOrder ==
    /\ InitRun
    /\ agents \in {[Agents EXCEPT ![bank_agent.name].input_guardrails = ig,
                                  ![bank_agent.name].output_guardrails = og] :
                      ig \in GuardSeqs("check_bank_related"),
                      og \in GuardSeqs("control_response")}

SpecOrder == InitOrder /\ [][Next]_vars

----------------------------------------------------------------------------
(* Properties *)

\* the boolean a checking agent reports: is_bank_related or is_bank_queries
Acceptable(final_output) ==
    IF "is_bank_related" \in DOMAIN final_output
    THEN final_output.is_bank_related
    ELSE final_output.is_bank_queries

IsTripwire(e) ==
    e.type \in {"InputGuardrailTripwireTriggered", "OutputGuardrailTripwireTriggered"}

\* the model calls of the run's own agents, not of a guardrail's checking agent
PrimaryInferences == {j \in 1..Len(inferLog) : inferLog[j].depth = 1}

\* C1: when an input guardrail's checking agent judges the input not acceptable,
\* the run ends with InputGuardrailTripwireTriggered, returns nothing, and no model
\* call of the entry agent or of a handoff target was made in that run.
C1_InputTripBeforeInference ==
    \A i \in 1..Len(guardLog) :
        (guardLog[i].kind = "input_guardrails" /\ ~Acceptable(guardLog[i].checked))
        => /\ stack = <<>>
           /\ raised.type = "InputGuardrailTripwireTriggered"
           /\ returned = NoneValue
           /\ PrimaryInferences = {}

\* the math-homework run was stopped by check_bank_related
W_C1 ==
    /\ mainpc = "await2"
    /\ Len(guardLog) = 1
    /\ guardLog[1].guardrail = "check_bank_related"
    /\ ~guardLog[1].checked.is_bank_related
    /\ raised.type = "InputGuardrailTripwireTriggered"

\* C2: when an output guardrail of the agent that finalized the output judges the
\* candidate not acceptable, the run ends with OutputGuardrailTripwireTriggered and
\* the candidate is not returned to the caller.
C2_OutputTripNoResult ==
    \A i \in 1..Len(guardLog) :
        (guardLog[i].kind = "output_guardrails" /\ ~Acceptable(guardLog[i].checked))
        => /\ stack = <<>>
           /\ raised.type = "OutputGuardrailTripwireTriggered"
           /\ returned = NoneValue

\* bank_agent produced a candidate and control_response rejected it
W_C2 ==
    /\ Len(guardLog) = 2
    /\ guardLog[2].guardrail = "control_response"
    /\ ~guardLog[2].checked.is_bank_queries
    /\ \E j \in PrimaryInferences : inferLog[j].output.type = "MessageOutput"
    /\ raised.type = "OutputGuardrailTripwireTriggered"

\* C3: in every turn of the run, check_balance is exposed to the model exactly when
\* is_authenticated holds of the context, which is exactly when the context has
\* name "Tooba" and pin 678.
C3_ToolExposedIffAuthenticated ==
    \A j \in PrimaryInferences :
        /\ (check_balance.name \in inferLog[j].tools)
              <=> is_authenticated(inferLog[j].context)
        /\ is_authenticated(inferLog[j].context)
              <=> (inferLog[j].context.name = "Tooba" /\ inferLog[j].context.pin = 678)

\* C4: a run has never both a result and an exception; a completed run has one of
\* them, the exception being one of the two tripwires; and once a guardrail has
\* tripped in the run, no result is returned.
C4_ExactlyOneOutcome ==
    /\ ~(returned # NoneValue /\ raised # NoneValue)
    /\ (stack = <<>> /\ mainpc # "call1")
          => (returned # NoneValue \/ raised # NoneValue)
    /\ raised # NoneValue => IsTripwire(raised)
    /\ (\E i \in 1..Len(guardLog) : guardLog[i].verdict.tripwire_triggered)
          => (returned = NoneValue /\ stack = <<>> /\ IsTripwire(raised))

\* both runs are over, the second stopped by a tripwire
W_C4 ==
    /\ mainpc = "done"
    /\ raised # NoneValue
    /\ returned = NoneValue
    /\ guardLog[Len(guardLog)].verdict.tripwire_triggered

\* C5: when bank_agent delegates, the result of the run is the final output the
\* target produced under the caller's context, and no output guardrail of
\* bank_agent runs on it: only output guardrails of the finalizing agent are run.
C5_DelegationTransparent ==
    /\ \A k \in 1..Len(invoked) :
          invoked[k].kind = "output_guardrails"
          => \E j \in PrimaryInferences :
                /\ j <= invoked[k].inferred
                /\ inferLog[j].agent = invoked[k].owner
                /\ inferLog[j].output.type # "Handoff"
    /\ (returned # NoneValue /\ returned.hops > 0)
          => /\ \E i \in 1..Len(bank_agent.handoffs) :
                   bank_agent.handoffs[i] = returned.last_agent
             /\ \E j \in PrimaryInferences :
                   /\ \A m \in PrimaryInferences : m <= j
                   /\ inferLog[j].agent = returned.last_agent
                   /\ inferLog[j].context = user_context
                   /\ inferLog[j].output = returned.final_output
             /\ \A k \in 1..Len(invoked) : invoked[k].kind # "output_guardrails"
    /\ \A k \in 1..Len(invoked) :
          (/\ invoked[k].kind = "output_guardrails"
           /\ \E i \in 1..Len(bank_agent.output_guardrails) :
                 bank_agent.output_guardrails[i] = invoked[k].guardrail)
          => \A j \in PrimaryInferences :
                j <= invoked[k].inferred => inferLog[j].output.type # "Handoff"

\* a run that bank_agent delegated has returned the target's output
W_C5 ==
    /\ returned # NoneValue
    /\ returned.hops = 1
    /\ returned.last_agent = customer_agent.name
    /\ \E j \in PrimaryInferences :
          /\ inferLog[j].agent = bank_agent.name
          /\ inferLog[j].output.type = "Handoff"

\* C6: every result of a successful run of bank_agent carries a MessageOutput with a
\* response field, answered directly or through a handoff, so that main's read of
\* result.final_output.response never fails.
C6_ResultHasResponse ==
    /\ returned # NoneValue
          => /\ returned.final_output.type = bank_agent.output_type
             /\ "response" \in DOMAIN returned.final_output
    /\ mainpc # "crashed"

\* C7: the guardrails of one kind are entered in declaration order, each after the
\* one before it has answered; after the first trip no further guardrail is entered;
\* and an output guardrail is entered only after its agent produced a final output.
C7_GuardrailOrder ==
    /\ \A k \in 1..Len(invoked) :
          /\ invoked[k].completed = k - 1
          /\ invoked[k].idx =
                Cardinality({m \in 1..k : invoked[m].kind = invoked[k].kind})
          /\ invoked[k].kind = "output_guardrails"
                => /\ \A m \in 1..k : invoked[m].kind = "input_guardrails"
                                         => ~guardLog[m].verdict.tripwire_triggered
                   /\ \E j \in PrimaryInferences :
                         /\ j <= invoked[k].inferred
                         /\ inferLog[j].agent = invoked[k].owner
                         /\ inferLog[j].output.type # "Handoff"
    /\ \A i \in 1..Len(guardLog) :
          guardLog[i].verdict.tripwire_triggered
          => /\ Len(invoked) = i
             /\ Len(guardLog) = i
             /\ stack = <<>>

\* the first of two input guardrails tripped and the second was never entered
W_C7 ==
    /\ Len(agents[bank_agent.name].input_guardrails) = 2
    /\ Len(guardLog) = 1
    /\ guardLog[1].verdict.tripwire_triggered
    /\ Len(invoked) = 1
    /\ RunOver

\* C8: every verdict's tripwire_triggered is the negation of the checking agent's
\* acceptability field, whatever its reasoning, and output_info is the checking
\* agent's final output unchanged.
C8_VerdictIsNegation ==
    \A i \in 1..Len(guardLog) :
        /\ guardLog[i].verdict.tripwire_triggered = ~Acceptable(guardLog[i].checked)
        /\ guardLog[i].verdict.output_info = guardLog[i].checked

\* both guardrails passed an answer that gave no reasoning
W_C8 ==
    /\ Len(guardLog) = 2
    /\ guardLog[1].checked.reasoning = NoReasoning
    /\ guardLog[2].checked.reasoning = NoReasoning
    /\ ~guardLog[1].verdict.tripwire_triggered
    /\ ~guardLog[2].verdict.tripwire_triggered

\* C9: the context is the caller's Account in every state, and every Runner.run
\* frame, guardrail call and model call of the run was given that same value.
C9_ContextUnchanged ==
    /\ context = user_context
    /\ \A d \in 1..Len(stack) : stack[d].context = user_context
    /\ \A k \in 1..Len(invoked) : invoked[k].context = user_context
    /\ \A j \in 1..Len(inferLog) : inferLog[j].context = user_context

\* main is done after a run that passed through both guardrails and a tripwire
W_C9 ==
    /\ mainpc = "done"
    /\ Len(invoked) = 2
    /\ raised.type = "OutputGuardrailTripwireTriggered"
    /\ context.name = "Tooba"
    /\ context.pin = 678

\* at most one delegation hop, and a guardrail's checking agent runs one level
\* below the run, with no guardrails and no handoffs of its own
C10_Bounded ==
    /\ Len(stack) <= 2
    /\ \A d \in 1..Len(stack) :
          /\ stack[d].hops <= 1
          /\ d = 2 => /\ agents[stack[d].agent].input_guardrails = <<>>
                      /\ agents[stack[d].agent].output_guardrails = <<>>
                      /\ agents[stack[d].agent].handoffs = <<>>
          /\ stack[d].hops = 1 => agents[stack[d].agent].handoffs = <<>>

\* C10: every run of bank_agent ends, given that each model call returns: no run
\* takes more than one hop or nests guardrail evaluation, and main reaches its end.
C10_Terminates ==
    /\ []C10_Bounded
    /\ <>(mainpc \in {"done", "crashed"})
    /\ [](mainpc \in {"await1", "await2"} => <>RunOver)

\* main is done and its last run was answered by a handoff target
W_C10 ==
    /\ mainpc = "done"
    /\ returned # NoneValue
    /\ returned.hops = 1
    /\ returned.last_agent = loan_agent.name

====
